---- MODULE Spec2Model ----
(***************************************************************************)
(* Fuzzy student-performance evaluation (src/app.js): the two membership   *)
(* functions, the 9-rule Mamdani inference (min / max), the weighted       *)
(* average defuzzifier with its label thresholds, and the form's submit    *)
(* handler that parses the fields and appends a row to the result table.   *)
(*                                                                         *)
(* Numbers.  A JavaScript number is a record [k, v]: k = "fin" with the    *)
(* value v, or one of "nan", "pinf", "ninf".  Inputs are counted in        *)
(* hundredths (3.2 is 320, 72 is 7200), membership degrees in units of     *)
(* 1/DegOne, so that every division the membership functions make is exact *)
(* on the input grid.  The quotient numerator / denominator is kept as the *)
(* exact fraction [k, n, d].  Arithmetic is exact (rational); the rounding *)
(* error of IEEE doubles is not modelled.                                  *)
(***************************************************************************)
EXTENDS Integers, Sequences, FiniteSets

VARIABLES pc, ipk, aktif, keanggotaanIPK, keanggotaanAktif, a, applied,
          hasil, ret, prev, table, alertShown

vars == <<pc, ipk, aktif, keanggotaanIPK, keanggotaanAktif, a, applied,
          hasil, ret, prev, table, alertShown>>

(* ------------------------------ bounds --------------------------------- *)
\* how far (in grid steps) the direct-call inputs reach outside the domain
OutMargin == 3
\* rows the result table may hold
MaxRows == 2
\* membership degrees of the rule-folding specification: i/FoldLevels
FoldLevels == 2

(* --------------------------- JS number values -------------------------- *)
Num(n) == [k |-> "fin", v |-> n]
NaN == [k |-> "nan", v |-> 0]
PInf == [k |-> "pinf", v |-> 0]
NInf == [k |-> "ninf", v |-> 0]
Undef == [k |-> "undef", v |-> 0]

\* x <= c, x < c, x >= c for a JS number x and a finite c (false on NaN)
LE(x, c) == x.k = "ninf" \/ (x.k = "fin" /\ x.v <= c)
LT(x, c) == x.k = "ninf" \/ (x.k = "fin" /\ x.v < c)
GE(x, c) == x.k = "pinf" \/ (x.k = "fin" /\ x.v >= c)

\* the membership degree 1
DegOne == 6000

\* (hi - x) / w  and  (x - lo) / w  as degrees
RampDown(hi, x, w) ==
  CASE x.k = "fin" -> Num(((hi - x.v) * DegOne) \div w)
    [] x.k = "pinf" -> NInf
    [] x.k = "ninf" -> PInf
    [] OTHER -> NaN
RampUp(x, lo, w) ==
  CASE x.k = "fin" -> Num(((x.v - lo) * DegOne) \div w)
    [] x.k = "pinf" -> PInf
    [] x.k = "ninf" -> NInf
    [] OTHER -> NaN

\* Math.min / Math.max: NaN if either argument is NaN
MathMin(x, y) ==
  IF x.k = "nan" \/ y.k = "nan" THEN NaN ELSE IF x.v <= y.v THEN x ELSE y
MathMaxOverwrite(x, y) == y
MathMax(x, y) ==
  IF x.k = "nan" \/ y.k = "nan" THEN NaN ELSE IF x.v >= y.v THEN x ELSE y

\* a degree times a constant, and the sum of two such products
Times(x, c) == IF x.k = "nan" THEN NaN ELSE Num(x.v * c)
Plus(x, y) == IF x.k = "nan" \/ y.k = "nan" THEN NaN ELSE Num(x.v + y.v)

Kat == {"rendah", "sedang", "tinggi"}

(* ------------------------- membership functions ------------------------ *)
muIPKSteep(x) ==
  [rendah |-> IF LE(x, 0) THEN Num(DegOne)
              ELSE IF LT(x, 275) THEN RampDown(275, x, 75) ELSE Num(0),
   sedang |-> IF LE(x, 200) \/ GE(x, 350) THEN Num(0)
              ELSE IF LT(x, 275) THEN RampUp(x, 200, 75)
              ELSE RampDown(350, x, 75),
   tinggi |-> IF LE(x, 300) THEN Num(0)
              ELSE IF LT(x, 350) THEN RampUp(x, 300, 50) ELSE Num(DegOne)]
muIPK(x) ==
  [rendah |-> IF LE(x, 200) THEN Num(DegOne)
              ELSE IF LT(x, 275) THEN RampDown(275, x, 75) ELSE Num(0),
   sedang |-> IF LE(x, 200) \/ GE(x, 350) THEN Num(0)
              ELSE IF LT(x, 275) THEN RampUp(x, 200, 75)
              ELSE RampDown(350, x, 75),
   tinggi |-> IF LE(x, 300) THEN Num(0)
              ELSE IF LT(x, 350) THEN RampUp(x, 300, 50) ELSE Num(DegOne)]

muAktifGap(x) ==
  [rendah |-> IF LE(x, 4000) THEN Num(DegOne)
              ELSE IF LT(x, 6000) THEN RampDown(6000, x, 2000) ELSE Num(0),
   sedang |-> IF LE(x, 4000) \/ GE(x, 8000) THEN Num(0)
              ELSE IF LT(x, 6000) THEN RampUp(x, 4000, 2000)
              ELSE RampDown(8000, x, 2000),
   tinggi |-> IF LE(x, 6000) THEN Num(0)
              ELSE IF LT(x, 8000) THEN RampUp(x, 6000, 2000) ELSE Num(0)]
muAktif(x) ==
  [rendah |-> IF LE(x, 4000) THEN Num(DegOne)
              ELSE IF LT(x, 6000) THEN RampDown(6000, x, 2000) ELSE Num(0),
   sedang |-> IF LE(x, 4000) \/ GE(x, 8000) THEN Num(0)
              ELSE IF LT(x, 6000) THEN RampUp(x, 4000, 2000)
              ELSE RampDown(8000, x, 2000),
   tinggi |-> IF LE(x, 6000) THEN Num(0)
              ELSE IF LT(x, 8000) THEN RampUp(x, 6000, 2000) ELSE Num(DegOne)]

(* ------------------------------ rule base ------------------------------ *)
rulesInverted ==
  << [ipk |-> "tinggi", aktif |-> "tinggi", hasil |-> "rendah"],
     [ipk |-> "tinggi", aktif |-> "sedang", hasil |-> "tinggi"],
     [ipk |-> "tinggi", aktif |-> "rendah", hasil |-> "sedang"],
     [ipk |-> "sedang", aktif |-> "tinggi", hasil |-> "tinggi"],
     [ipk |-> "sedang", aktif |-> "sedang", hasil |-> "sedang"],
     [ipk |-> "sedang", aktif |-> "rendah", hasil |-> "rendah"],
     [ipk |-> "rendah", aktif |-> "tinggi", hasil |-> "sedang"],
     [ipk |-> "rendah", aktif |-> "sedang", hasil |-> "rendah"],
     [ipk |-> "rendah", aktif |-> "rendah", hasil |-> "rendah"] >>
rules ==
  << [ipk |-> "tinggi", aktif |-> "tinggi", hasil |-> "tinggi"],
     [ipk |-> "tinggi", aktif |-> "sedang", hasil |-> "tinggi"],
     [ipk |-> "tinggi", aktif |-> "rendah", hasil |-> "sedang"],
     [ipk |-> "sedang", aktif |-> "tinggi", hasil |-> "tinggi"],
     [ipk |-> "sedang", aktif |-> "sedang", hasil |-> "sedang"],
     [ipk |-> "sedang", aktif |-> "rendah", hasil |-> "rendah"],
     [ipk |-> "rendah", aktif |-> "tinggi", hasil |-> "sedang"],
     [ipk |-> "rendah", aktif |-> "sedang", hasil |-> "rendah"],
     [ipk |-> "rendah", aktif |-> "rendah", hasil |-> "rendah"] >>

\* let a = { rendah: 0, sedang: 0, tinggi: 0 }
aInit == [c \in Kat |-> Num(0)]

\* one iteration of the loop body for the given rule
fire(rule, mI, mA) == MathMin(mI[rule.ipk], mA[rule.aktif])
ApplyRule(acc, rule, mI, mA) ==
  [acc EXCEPT ![rule.hasil] = MathMax(acc[rule.hasil], fire(rule, mI, mA))]

\* for (const rule of rules) { ... }: the first n rules, in the array's order
RECURSIVE FoldRules(_, _, _)
FoldRules(n, mI, mA) ==
  IF n = 0 THEN aInit
  ELSE ApplyRule(FoldRules(n - 1, mI, mA), rules[n], mI, mA)
Aggregate(mI, mA) == FoldRules(Len(rules), mI, mA)

(* ----------------------------- defuzzifier ----------------------------- *)
zDocumented == [rendah |-> 30, sedang |-> 60, tinggi |-> 90]
z == [rendah |-> 20, sedang |-> 50, tinggi |-> 80]

Numerator(acc) ==
  Plus(Plus(Times(acc.rendah, z.rendah), Times(acc.sedang, z.sedang)),
       Times(acc.tinggi, z.tinggi))
DenominatorShort(acc) == Plus(acc.rendah, acc.sedang)
Denominator(acc) == Plus(Plus(acc.rendah, acc.sedang), acc.tinggi)

RECURSIVE GCD(_, _)
GCD(m, n) == IF n = 0 THEN m ELSE GCD(n, m % n)
Abs(n) == IF n < 0 THEN 0 - n ELSE n

\* numerator / denominator as an exact fraction in lowest terms with a
\* positive denominator; 0/0 is NaN, x/0 is an infinity
Quotient(n, d) ==
  IF n.k = "nan" \/ d.k = "nan" THEN [k |-> "nan", n |-> 0, d |-> 1]
  ELSE IF d.v = 0
       THEN IF n.v = 0 THEN [k |-> "nan", n |-> 0, d |-> 1]
            ELSE IF n.v > 0 THEN [k |-> "pinf", n |-> 0, d |-> 1]
            ELSE [k |-> "ninf", n |-> 0, d |-> 1]
  ELSE LET g == GCD(Abs(n.v), Abs(d.v))
           sgn == IF d.v > 0 THEN 1 ELSE 0 - 1
       IN [k |-> "fin", n |-> sgn * (n.v \div g), d |-> sgn * (d.v \div g)]

\* q < c for a fraction q and a finite c (false on NaN)
QLess(q, c) == q.k = "ninf" \/ (q.k = "fin" /\ q.n < c * q.d)

\* hasil < 60 ? 'Rendah' : hasil < 80 ? 'Sedang' : 'Tinggi'
kategoriInclusive(q) ==
  IF QLess(q, 60) THEN "Rendah"
  ELSE IF QLess(q, 80) \/ (q.k = "fin" /\ q.n = 80 * q.d) THEN "Sedang"
  ELSE "Tinggi"
kategori(q) ==
  IF QLess(q, 60) THEN "Rendah" ELSE IF QLess(q, 80) THEN "Sedang" ELSE "Tinggi"

\* hasil.toFixed(2): the decimal string, as the number of hundredths it
\* spells (ties to the larger value); "NaN" and "Infinity" for non-finite
toFixed2(q) ==
  CASE q.k = "fin" -> Num((200 * q.n + q.d) \div (2 * q.d))
    [] q.k = "pinf" -> PInf
    [] q.k = "ninf" -> NInf
    [] OTHER -> NaN

\* everything one call of hitungFuzzy computes; the function has no throw
\* statement, so the call always completes by returning
hitungFuzzy(x, y) ==
  LET mI == muIPK(x)
      mA == muAktif(y)
      acc == Aggregate(mI, mA)
      q == Quotient(Numerator(acc), Denominator(acc))
  IN [keanggotaanIPK |-> mI, keanggotaanAktif |-> mA, a |-> acc, hasil |-> q,
      ret |-> [completion |-> "return", hasil |-> toFixed2(q),
               kategori |-> kategori(q)]]

(* ------------------------- values before any call ---------------------- *)
NoVector == [c \in Kat |-> Undef]
NoHasil == [k |-> "undef", n |-> 0, d |-> 1]
NoRet == [completion |-> "none", hasil |-> Undef, kategori |-> "-"]
NoPrev == [ipk |-> Undef, aktif |-> Undef, hasil |-> NoHasil, kategori |-> "-"]

(* ===================== SpecCore: one call of hitungFuzzy =============== *)
\* arguments of a direct call: the GPA grid in hundredths and the activity
\* grid in whole points, both reaching OutMargin steps past the documented
\* domain, and the three non-finite numbers
NonFinite == {NaN, PInf, NInf}
IPKArgs == {Num(g) : g \in (0 - OutMargin)..(400 + OutMargin)} \cup NonFinite
AktifArgs ==
  {Num(100 * p) : p \in (0 - OutMargin)..(100 + OutMargin)} \cup NonFinite

InitCore ==
  /\ pc = "call"
  /\ ipk \in IPKArgs
  /\ aktif \in AktifArgs
  /\ keanggotaanIPK = NoVector
  /\ keanggotaanAktif = NoVector
  /\ a = NoVector
  /\ applied = {}
  /\ hasil = NoHasil
  /\ ret = NoRet
  /\ prev = NoPrev
  /\ table = <<>>
  /\ alertShown = FALSE

Hitung ==
  /\ pc = "call"
  /\ LET r == hitungFuzzy(ipk, aktif)
     IN /\ keanggotaanIPK' = r.keanggotaanIPK
        /\ keanggotaanAktif' = r.keanggotaanAktif
        /\ a' = r.a
        /\ hasil' = r.hasil
        /\ ret' = r.ret
  /\ pc' = "done"
  /\ UNCHANGED <<ipk, aktif, applied, prev, table, alertShown>>

NextCore == Hitung
SpecCore == InitCore /\ [][NextCore]_vars

(* ================== Spec: the form's submit handler ==================== *)
\* field texts are sequences of one-character strings
Digits == {"0", "1", "2", "3", "4", "5", "6", "7", "8", "9"}
DigitVal(c) ==
  CASE c = "0" -> 0 [] c = "1" -> 1 [] c = "2" -> 2 [] c = "3" -> 3
    [] c = "4" -> 4 [] c = "5" -> 5 [] c = "6" -> 6 [] c = "7" -> 7
    [] c = "8" -> 8 [] OTHER -> 9

RECURSIVE TrimLeft(_)
TrimLeft(s) == IF s # <<>> /\ Head(s) = " " THEN TrimLeft(Tail(s)) ELSE s

\* the longest prefix of s made of digits
RECURSIVE DigitPrefix(_)
DigitPrefix(s) ==
  IF s # <<>> /\ Head(s) \in Digits THEN <<Head(s)>> \o DigitPrefix(Tail(s))
  ELSE <<>>

RECURSIVE DecimalValue(_)
DecimalValue(ds) ==
  IF ds = <<>> THEN 0
  ELSE 10 * DecimalValue(SubSeq(ds, 1, Len(ds) - 1)) + DigitVal(ds[Len(ds)])

\* the fraction digits as hundredths (the field texts have at most two)
Hundredths(fs) ==
  (IF Len(fs) >= 1 THEN 10 * DigitVal(fs[1]) ELSE 0)
  + (IF Len(fs) >= 2 THEN DigitVal(fs[2]) ELSE 0)

InfinityText == <<"I", "n", "f", "i", "n", "i", "t", "y">>
StartsWith(s, p) == Len(s) >= Len(p) /\ SubSeq(s, 1, Len(p)) = p

\* parseFloat: leading blanks, an optional sign, then "Infinity" or the
\* longest decimal literal; NaN when there is none.  Result in hundredths.
parseFloat(s) ==
  LET t == TrimLeft(s)
      neg == t # <<>> /\ Head(t) = "-"
      u == IF t # <<>> /\ Head(t) \in {"+", "-"} THEN Tail(t) ELSE t
      ip == DigitPrefix(u)
      rest == SubSeq(u, Len(ip) + 1, Len(u))
      fp == IF rest # <<>> /\ Head(rest) = "." THEN DigitPrefix(Tail(rest))
            ELSE <<>>
      mag == 100 * DecimalValue(ip) + Hundredths(fp)
  IN IF StartsWith(u, InfinityText) THEN (IF neg THEN NInf ELSE PInf)
     ELSE IF ip = <<>> /\ fp = <<>> THEN NaN
     ELSE Num(IF neg THEN 0 - mag ELSE mag)

isNaNLoose(x) == FALSE
isNaN(x) == x.k = "nan"

\* what the user may have typed into the fields
Names == {"", "Ani"}
Nims == {"", "2301"}
FieldTexts ==
  { <<>>, <<"N", "a", "N">>,
    <<"3", ".", "2">>, <<" ", "7", "2">>,
    <<"4", "5", "%">>, InfinityText, <<"-">> \o InfinityText }

Init ==
  /\ pc = "idle"
  /\ ipk = Undef
  /\ aktif = Undef
  /\ keanggotaanIPK = NoVector
  /\ keanggotaanAktif = NoVector
  /\ a = NoVector
  /\ applied = {}
  /\ hasil = NoHasil
  /\ ret = NoRet
  /\ prev = NoPrev
  /\ table = <<>>
  /\ alertShown = FALSE

\* the submit listener; ipk and aktif keep the arguments of the latest call
\* of hitungFuzzy
Submit(nama, nim, ipkText, aktifText) ==
  LET x == parseFloat(ipkText)
      y == parseFloat(aktifText)
  IN IF nama = "" \/ nim = "" \/ isNaN(x) \/ isNaN(y)
     THEN /\ alertShown' = TRUE
          /\ UNCHANGED <<pc, ipk, aktif, keanggotaanIPK, keanggotaanAktif, a,
                         applied, hasil, ret, prev, table>>
     ELSE /\ Len(table) < MaxRows
          /\ LET r == hitungFuzzy(x, y)
             IN /\ ipk' = x
                /\ aktif' = y
                /\ keanggotaanIPK' = r.keanggotaanIPK
                /\ keanggotaanAktif' = r.keanggotaanAktif
                /\ a' = r.a
                /\ hasil' = r.hasil
                /\ ret' = r.ret
                /\ table' = Append(table,
                     [nama |-> nama, nim |-> nim, ipk |-> x, aktif |-> y,
                      hasil |-> r.ret.hasil, kategori |-> r.ret.kategori])
          /\ alertShown' = FALSE
          /\ UNCHANGED <<pc, applied, prev>>

Next ==
  \E nama \in Names, nim \in Nims, ipkText \in FieldTexts,
     aktifText \in FieldTexts : Submit(nama, nim, ipkText, aktifText)
Spec == Init /\ [][Next]_vars

(* ======================= properties of one call ======================== *)
Labels == {"Rendah", "Sedang", "Tinggi"}
IPKInDomain == ipk.k = "fin" /\ 0 <= ipk.v /\ ipk.v <= 400
AktifInDomain == aktif.k = "fin" /\ 0 <= aktif.v /\ aktif.v <= 10000
InDomain == IPKInDomain /\ AktifInDomain
Called == ret.completion # "none"
UnitDegrees(m) == \A c \in Kat : m[c].k = "fin" /\ 0 <= m[c].v /\ m[c].v <= DegOne

\* C1: for a GPA in [0,4] and an activity in [0,100] every membership degree
\* lies in [0,1], and muIPK(2.0).rendah = 1, muIPK(2.75).rendah = 0,
\* muIPK(2.75).sedang = 1 exactly.
C1_DegreesInUnitInterval ==
  Called =>
    /\ IPKInDomain => UnitDegrees(keanggotaanIPK)
    /\ AktifInDomain => UnitDegrees(keanggotaanAktif)
    /\ ipk = Num(200) => keanggotaanIPK.rendah = Num(DegOne)
    /\ ipk = Num(275) => /\ keanggotaanIPK.rendah = Num(0)
                         /\ keanggotaanIPK.sedang = Num(DegOne)
C1_Witness ==
  /\ pc = "done"
  /\ ipk = Num(275)
  /\ keanggotaanIPK.sedang = Num(DegOne)
  /\ aktif = Num(5000)
  /\ keanggotaanAktif.rendah = Num(DegOne \div 2)

\* C2: hitungFuzzy(3.2, 72) fuzzifies the GPA to {rendah 0, sedang 0.4,
\* tinggi 0.4}, gives the crisp score 65 and the label 'Sedang'.
C2_DocumentedExample ==
  (Called /\ ipk = Num(320) /\ aktif = Num(7200)) =>
    /\ keanggotaanIPK = [rendah |-> Num(0), sedang |-> Num((4 * DegOne) \div 10),
                         tinggi |-> Num((4 * DegOne) \div 10)]
    /\ hasil.k = "fin" /\ hasil.n = 65 * hasil.d
    /\ ret = [completion |-> "return", hasil |-> Num(6500), kategori |-> "Sedang"]
C2_Witness ==
  pc = "done" /\ ipk = Num(320) /\ aktif = Num(7200) /\ ret.kategori = "Sedang"

\* C3: hitungFuzzy(4.0, 100) aggregates to tinggi = 1, others 0, scores
\* exactly the high centroid and is labelled 'Tinggi'; hitungFuzzy(0, 0)
\* aggregates to rendah = 1, others 0, scores exactly the low centroid and
\* is labelled 'Rendah'.
C3_SaturatedCorners ==
  /\ (Called /\ ipk = Num(400) /\ aktif = Num(10000)) =>
       /\ a = [rendah |-> Num(0), sedang |-> Num(0), tinggi |-> Num(DegOne)]
       /\ hasil.k = "fin" /\ hasil.n = z.tinggi * hasil.d
       /\ ret.kategori = "Tinggi"
  /\ (Called /\ ipk = Num(0) /\ aktif = Num(0)) =>
       /\ a = [rendah |-> Num(DegOne), sedang |-> Num(0), tinggi |-> Num(0)]
       /\ hasil.k = "fin" /\ hasil.n = z.rendah * hasil.d
       /\ ret.kategori = "Rendah"
C3_Witness ==
  pc = "done" /\ ipk = Num(400) /\ aktif = Num(10000) /\ a.tinggi = Num(DegOne)

C5_NonFiniteRejected ==
  (Called /\ (ipk.k # "fin" \/ aktif.k # "fin")) =>
    ret.completion = "throw" /\ ret.kategori \notin Labels

\* C7: for a GPA in [0,4] and an activity in [0,100] each input has a
\* non-zero membership degree and the defuzzification denominator is
\* strictly positive; a zero denominator needs an out-of-domain input.
C7_DenominatorPositive ==
  /\ (Called /\ InDomain) =>
       /\ \E c \in Kat : keanggotaanIPK[c].v > 0
       /\ \E c \in Kat : keanggotaanAktif[c].v > 0
       /\ Denominator(a).k = "fin" /\ Denominator(a).v > 0
  /\ (Called /\ Denominator(a) = Num(0)) => ~InDomain
C7_Witness ==
  /\ pc = "done"
  /\ ipk = Num(350) /\ aktif = Num(8000)
  /\ Cardinality({c \in Kat : keanggotaanIPK[c].v > 0}) = 1
  /\ Cardinality({c \in Kat : keanggotaanAktif[c].v > 0}) = 1

\* C8: for in-domain inputs the unrounded score lies between the low and
\* the high centroid, 20 <= score <= 80.
C8_ScoreWithinCentroids ==
  (Called /\ InDomain) =>
    /\ hasil.k = "fin"
    /\ 20 * hasil.d <= hasil.n
    /\ hasil.n <= 80 * hasil.d
C8_Witness ==
  /\ pc = "done" /\ InDomain
  /\ Cardinality({c \in Kat : a[c].v > 0}) = 3
  /\ 20 * hasil.d < hasil.n /\ hasil.n < 80 * hasil.d

\* C9: when exactly one output category has a non-zero aggregated strength
\* the score is that category's centroid and the label is that category.
LabelOf == [rendah |-> "Rendah", sedang |-> "Sedang", tinggi |-> "Tinggi"]
C9_SingleCategoryLabel ==
  \A c \in Kat :
    (Called /\ UnitDegrees(a) /\ {d \in Kat : a[d].v > 0} = {c}) =>
      /\ hasil.k = "fin" /\ hasil.n = z[c] * hasil.d
      /\ ret.kategori = LabelOf[c]

(* ============ SpecMono: two calls that differ in one argument ========== *)
MonoIPKArgs == {Num(5 * i) : i \in 0..80}
MonoAktifArgs == {Num(500 * i) : i \in 0..20}

InitMono ==
  /\ pc = "call"
  /\ ipk \in MonoIPKArgs
  /\ aktif \in MonoAktifArgs
  /\ keanggotaanIPK = NoVector
  /\ keanggotaanAktif = NoVector
  /\ a = NoVector
  /\ applied = {}
  /\ hasil = NoHasil
  /\ ret = NoRet
  /\ prev = NoPrev
  /\ table = <<>>
  /\ alertShown = FALSE

\* a second call, with one of the two arguments as in the first; prev keeps
\* the first call's arguments and result
HitungLagi(x, y) ==
  /\ pc = "done"
  /\ prev = NoPrev
  /\ x = ipk \/ y = aktif
  /\ prev' = [ipk |-> ipk, aktif |-> aktif, hasil |-> hasil,
              kategori |-> ret.kategori]
  /\ LET r == hitungFuzzy(x, y)
     IN /\ ipk' = x
        /\ aktif' = y
        /\ keanggotaanIPK' = r.keanggotaanIPK
        /\ keanggotaanAktif' = r.keanggotaanAktif
        /\ a' = r.a
        /\ hasil' = r.hasil
        /\ ret' = r.ret
  /\ UNCHANGED <<pc, applied, table, alertShown>>

NextMono ==
  \/ Hitung
  \/ \E x \in MonoIPKArgs : HitungLagi(x, aktif)
  \/ \E y \in MonoAktifArgs : HitungLagi(ipk, y)
SpecMono == InitMono /\ [][NextMono]_vars

Rank == [Rendah |-> 0, Sedang |-> 1, Tinggi |-> 2]
\* the first call's arguments are both <= the second call's
Raised == prev # NoPrev /\ prev.ipk.v <= ipk.v /\ prev.aktif.v <= aktif.v
ScoreNotLower == prev.hasil.n * hasil.d <= hasil.n * prev.hasil.d
LabelNotLower == Rank[prev.kategori] <= Rank[ret.kategori]

\* C10 as stated: raising the GPA or the activity never lowers the score
\* and never lowers the label.
C10_ScoreAndLabelMonotone == Raised => (ScoreNotLower /\ LabelNotLower)

\* C10 as amended: raising the GPA or the activity never lowers the label
\* (the score itself may drop).
C10_LabelMonotone == Raised => LabelNotLower
C10_Witness ==
  /\ Raised
  /\ prev.aktif = aktif /\ prev.ipk.v < ipk.v
  /\ ~ScoreNotLower
  /\ prev.kategori = ret.kategori

(* ============ SpecFold: the 9 rules folded in any order ================ *)
FoldDegrees == {Num((i * DegOne) \div FoldLevels) : i \in 0..FoldLevels}

InitFold ==
  /\ pc = "fold"
  /\ ipk = Undef
  /\ aktif = Undef
  /\ keanggotaanIPK \in [Kat -> FoldDegrees]
  /\ keanggotaanAktif \in [Kat -> FoldDegrees]
  /\ a = aInit
  /\ applied = {}
  /\ hasil = NoHasil
  /\ ret = NoRet
  /\ prev = NoPrev
  /\ table = <<>>
  /\ alertShown = FALSE

\* the loop body run for rule i, whichever rules ran before it
FoldStep(i) ==
  /\ pc = "fold"
  /\ i \notin applied
  /\ a' = ApplyRule(a, rules[i], keanggotaanIPK, keanggotaanAktif)
  /\ applied' = applied \cup {i}
  /\ UNCHANGED <<pc, ipk, aktif, keanggotaanIPK, keanggotaanAktif, hasil, ret,
                 prev, table, alertShown>>

NextFold == \E i \in DOMAIN rules : FoldStep(i)
SpecFold == InitFold /\ [][NextFold]_vars

\* the largest firing strength among the rules of ix that target category c
MaxFire(ix, c) ==
  LET fs == {fire(rules[i], keanggotaanIPK, keanggotaanAktif).v :
               i \in {j \in ix : rules[j].hasil = c}} \cup {0}
  IN CHOOSE m \in fs : \A f \in fs : f <= m

\* C6: whatever the order in which the 9 rules are folded, the aggregated
\* strengths equal those of the code's order, and each equals the max of the
\* firing strengths of the rules targeting its category.
C6_FoldOrderIndependent ==
  pc = "fold" =>
    /\ \A c \in Kat : a[c] = Num(MaxFire(applied, c))
    /\ applied = DOMAIN rules =>
         a = Aggregate(keanggotaanIPK, keanggotaanAktif)
C6_Witness ==
  /\ pc = "fold"
  /\ applied = DOMAIN rules
  /\ a.rendah.v > 0 /\ a.sedang.v > a.rendah.v /\ a.tinggi.v > 0

====
